---- MODULE Spec2Model ----
(***************************************************************************)
(* Model of package web (src/pkg/web.go): the request descriptor Req, the  *)
(* package globals TimeOut and Client, and Req.Submit.                     *)
(*                                                                         *)
(* Text is a sequence of one-character strings, so that strings.Index,     *)
(* concatenation, url.Values.Encode and strconv.Itoa are computed.         *)
(* Submit is one synchronous call; it is modelled by three consecutive     *)
(* steps (SubmitPrepare, SubmitDo, SubmitFinish) ordered by pc, so that    *)
(* the states "request built, client not yet called" and "client           *)
(* returned, outcome not yet interpreted" can be observed.                 *)
(***************************************************************************)
EXTENDS Integers, Sequences, FiniteSets, TLC

VARIABLES
    req,       \* the descriptor *Req the caller holds
    pc,        \* "idle" | "ready" | "do" | "finish" | "done": where the caller is
    ret,       \* what the last Submit returned (or how it ended)
    httpreq,   \* local httpreq of Submit
    ctx,       \* the context.WithTimeout scope Submit derived, if any
    res,       \* local (res, err) returned by Client.Do
    calls,     \* number of Client.Do invocations of the current Submit
    path,      \* case of the body switch the current Submit took
    entry,     \* the descriptor and the caller's storage when Submit began
    prev,      \* outcome of the previous Submit on this same descriptor
    submits,   \* number of Submit calls made on this descriptor
    TimeOut,   \* package global TimeOut
    rec,       \* caller's typed record (type Data of the example)
    gmap,      \* caller's map[string]any
    anint      \* caller's int, as its decimal digits

vars == <<req, pc, ret, httpreq, ctx, res, calls, path, entry, prev, submits,
          TimeOut, rec, gmap, anint>>

---------------------------------------------------------------------------
(* Bounds *)

\* how many times the caller submits one and the same descriptor
MaxSubmits == 2

---------------------------------------------------------------------------
(* Program constants *)

DefaultTimeOut == 60

\* the value the example assigns to web.TimeOut
ExampleTimeOut == 4

TimeOuts == {DefaultTimeOut, ExampleTimeOut}

\* the integer literal served by the example, as its decimal digits (it
\* exceeds the 32-bit integers of TLC)
ServedInt == <<"2", "0", "2", "2", "0", "3", "2", "2", "0", "7", "5", "4", "4", "1">>

\* anint := 0
ZeroInt == <<"0">>

---------------------------------------------------------------------------
(* Text helpers *)

EmptyMap == [k \in {} |-> <<>>]

Digit(n) == CASE n = 0 -> "0" [] n = 1 -> "1" [] n = 2 -> "2" [] n = 3 -> "3"
              [] n = 4 -> "4" [] n = 5 -> "5" [] n = 6 -> "6" [] n = 7 -> "7"
              [] n = 8 -> "8" [] OTHER -> "9"

RECURSIVE Itoa(_)
Itoa(n) == IF n < 10 THEN <<Digit(n)>> ELSE Itoa(n \div 10) \o <<Digit(n % 10)>>

\* strings.ToLower on the letters the record's field names use
LowerChar(c) == CASE c = "P" -> "p" [] c = "C" -> "c" [] c = "I" -> "i" [] OTHER -> c

ToLower(t) == [i \in 1..Len(t) |-> LowerChar(t[i])]

\* url.QueryEscape, character by character
EscapeChar(c) == CASE c = "?" -> <<"%", "3", "F">>
                   [] c = "&" -> <<"%", "2", "6">>
                   [] c = "=" -> <<"%", "3", "D">>
                   [] c = " " -> <<"+">>
                   [] OTHER -> <<c>>

RECURSIVE QueryEscape(_)
QueryEscape(t) == IF t = <<>> THEN <<>> ELSE EscapeChar(Head(t)) \o QueryEscape(Tail(t))

\* url.Values.Encode: v is the map as its list of <<key, value>> pairs in
\* the order Encode emits them (keys sorted, each key's values in order)
RECURSIVE Encode(_)
Encode(v) ==
    IF v = <<>> THEN <<>>
    ELSE LET kv == QueryEscape(v[1][1]) \o <<"=">> \o QueryEscape(v[1][2])
         IN IF Len(v) = 1 THEN kv ELSE kv \o <<"&">> \o Encode(Tail(v))

---------------------------------------------------------------------------
(* Values of the descriptor's fields *)

GET == <<"G", "E", "T">>

POST == <<"P", "O", "S", "T">>

DELETE == <<"D", "E", "L", "E", "T", "E">>

\* a Method string net/http rejects (it holds a space)
BadMethod == <<"G", " ", "T">>

\* net/http validMethod: not empty and made of token characters only
ValidMethod(m) == Len(m) > 0 /\ \A i \in 1..Len(m) : m[i] \notin {" ", "?", "/", "@"}

FormContentType == <<"f", "o", "r", "m">>

TextContentType == <<"t", "e", "x", "t">>

NilHeaders == [isnil |-> TRUE, m |-> EmptyMap]

MakeHeaders(m) == [isnil |-> FALSE, m |-> m]

MarshalCaps == {"yaml.Marshaler", "json.Marshaler", "encoding.TextMarshaler", "fmt.Stringer"}

\* req.Body: its dynamic type, the interfaces a value of another type
\* implements, its content, and whether its marshal method returns an error
MakeBody(type, caps, form, str, fails) ==
    [type |-> type, caps |-> caps, form |-> form, str |-> str, fails |-> fails]

NilBody == MakeBody("nil", {}, <<>>, <<>>, FALSE)

UnmarshalCaps == {"yaml.Unmarshaler", "io.Writer"}

\* req.Data: its dynamic type, the interfaces a value of another type
\* implements, and the string it holds when it is a string
MakeData(type, caps, str) == [type |-> type, caps |-> caps, str |-> str]

NilData == MakeData("nil", {}, <<>>)

\* req.Resp and the *http.Response of the client: tag is "nil" (no
\* response), "stale" (whatever the caller left in Resp) or "response"
MakeResp(tag, code, body, readFails) ==
    [tag |-> tag, StatusCode |-> code, Body |-> body, readFails |-> readFails]

EmptyBody == [form |-> "empty", obj |-> EmptyMap]

NilResp == MakeResp("nil", 0, EmptyBody, FALSE)

StaleResp == MakeResp("stale", 0, EmptyBody, FALSE)

\* the zero value of Req
ZeroReq == [Method |-> <<>>, URL |-> <<>>, Query |-> <<>>, Headers |-> NilHeaders,
            Body |-> NilBody, Data |-> NilData, Context |-> "nil", Resp |-> NilResp]

\* error values Submit returns; type "nil" is the nil error, "Panic" a
\* panic that leaves Submit without returning
MakeErr(type, resp, cause) == [type |-> type, resp |-> resp, cause |-> cause]

NoErr == MakeErr("nil", NilResp, "")

NotReturned == MakeErr("running", NilResp, "")

NoRequest == [built |-> FALSE, Method |-> <<>>, URL |-> <<>>, Body |-> <<>>,
              Header |-> EmptyMap, Ctx |-> [kind |-> "none", deadline |-> 0]]

NoContext == [state |-> "none", deadline |-> 0]

NoResult == [resp |-> NilResp, err |-> ""]

---------------------------------------------------------------------------
(* The caller's typed record: type Data of the example, three of its     *)
(* fields, each with its Go name and its json tag                        *)

PostKey == <<"p", "o", "s", "t">>

ChangedKey == <<"c">>

IgnoredKey == <<"i">>

Fields == << [name |-> <<"P", "o", "s", "t">>, tag |-> PostKey],
             [name |-> <<"C", "h", "a", "n", "g", "e", "d">>, tag |-> ChangedKey],
             [name |-> <<"I", "g", "n", "o", "r", "e", "d">>, tag |-> IgnoredKey] >>

\* data := &Data{Changed: "o", Ignored: "i"}
InitRec == <<"", "o", "i">>

---------------------------------------------------------------------------
(* Req.Submit: the pure parts *)

\* if req.Method == "" { req.Method = `GET` }
DefaultMethod(m) == IF m = <<>> THEN GET ELSE m

\* faulty variant of HasQuery: the test written > 0, which misses a leading '?'
HasQueryAfterFirst(url) == \E i \in 2..Len(url) : url[i] = "?"

\* strings.Index(req.URL, "?") >= 0
HasQuery(url) == \E i \in 1..Len(url) : url[i] = "?"

\* req.URL = req.URL + "?" + req.Query.Encode()
AppendQuery(url, query) == url \o <<"?">> \o Encode(query)

\* faulty variant of BodyCase: the encoding.TextMarshaler case placed before the
\* json.Marshaler case
BodyCaseTextFirst(b) ==
    IF b.type = "url.Values" THEN "url.Values"
    ELSE IF b.type = "[]byte" THEN "[]byte"
    ELSE IF b.type = "string" THEN "string"
    ELSE IF "yaml.Marshaler" \in b.caps THEN "yaml.Marshaler"
    ELSE IF "encoding.TextMarshaler" \in b.caps THEN "encoding.TextMarshaler"
    ELSE IF "json.Marshaler" \in b.caps THEN "json.Marshaler"
    ELSE IF "fmt.Stringer" \in b.caps THEN "fmt.Stringer"
    ELSE "default"

\* the case of the body type switch a Body value takes: the first case, in
\* source order, that its dynamic type matches
BodyCase(b) ==
    IF b.type = "url.Values" THEN "url.Values"
    ELSE IF b.type = "[]byte" THEN "[]byte"
    ELSE IF b.type = "string" THEN "string"
    ELSE IF "yaml.Marshaler" \in b.caps THEN "yaml.Marshaler"
    ELSE IF "json.Marshaler" \in b.caps THEN "json.Marshaler"
    ELSE IF "encoding.TextMarshaler" \in b.caps THEN "encoding.TextMarshaler"
    ELSE IF "fmt.Stringer" \in b.caps THEN "fmt.Stringer"
    ELSE "default"

\* what the value's own methods and fmt produce
YAMLText == <<"y", ":", " ", "1">>

JSONText == <<"{", "}">>

MarshaledText == <<"t", "x", "t">>

StringerText == <<"s">>

\* fmt.Sprintf("%v", v): "<nil>" for a nil Body
Sprintf(b) == IF b.type = "nil" THEN <<"<", "n", "i", "l", ">">> ELSE <<"%", "v">>

\* the body switch: buf, whether the case returned an error, and whether
\* the case assigned req.Headers["Content-Type"]
Serialize(b) ==
    LET c == BodyCase(b) IN
    IF c = "url.Values" THEN [buf |-> Encode(b.form), err |-> FALSE, setsType |-> TRUE]
    ELSE IF c = "[]byte" THEN [buf |-> <<>>, err |-> FALSE, setsType |-> FALSE]
    ELSE IF c = "string" THEN [buf |-> b.str, err |-> FALSE, setsType |-> FALSE]
    ELSE IF c = "yaml.Marshaler"
         THEN [buf |-> IF b.fails THEN <<>> ELSE YAMLText, err |-> b.fails, setsType |-> FALSE]
    ELSE IF c = "json.Marshaler"
         THEN [buf |-> IF b.fails THEN <<>> ELSE JSONText, err |-> b.fails, setsType |-> FALSE]
    ELSE IF c = "encoding.TextMarshaler"
         THEN [buf |-> IF b.fails THEN <<>> ELSE MarshaledText, err |-> b.fails, setsType |-> FALSE]
    ELSE IF c = "fmt.Stringer" THEN [buf |-> StringerText, err |-> FALSE, setsType |-> FALSE]
    ELSE [buf |-> Sprintf(b), err |-> FALSE, setsType |-> FALSE]

\* req.Headers after the body switch and the Content-Length assignment
HeadersAfterBody(h, s) ==
    LET typed == IF s.setsType THEN ("Content-Type" :> FormContentType) @@ h.m ELSE h.m
    IN MakeHeaders(("Content-Length" :> Itoa(Len(s.buf))) @@ typed)

\* the context of the outbound request: http.NewRequest gives it
\* context.Background(), and only a nil req.Context replaces that, by a
\* context.WithTimeout of TimeOut seconds
RequestContext(c, timeout) ==
    IF c = "nil" THEN [kind |-> "timeout", deadline |-> timeout]
    ELSE [kind |-> "background", deadline |-> 0]

\* ctx, cancel := context.WithTimeout(...), only when req.Context == nil
DerivedScope(c, timeout) ==
    IF c = "nil" THEN [state |-> "active", deadline |-> timeout] ELSE NoContext

\* faulty variant of Release: cancel is not deferred
ReleaseNever(c) == c

\* defer cancel()
Release(c) == IF c.state = "active" THEN [c EXCEPT !.state = "cancelled"] ELSE c

\* faulty variant of RespAfterDo: the assignment placed after the err check
RespAfterDoOnSuccess(old, r) == IF r.err # "" THEN old ELSE r.resp

\* req.Resp = res, placed before the err check
RespAfterDo(old, r) == r.resp

\* faulty variant of IsSuccess: the upper bound written <= 300
IsSuccessInclusive(code) == 200 <= code /\ code <= 300

\* 200 <= res.StatusCode && res.StatusCode < 300
IsSuccess(code) == 200 <= code /\ code < 300

\* faulty variant of DataCase: the io.Writer case is missing
DataCaseNoWriter(d) ==
    IF d.type = "map[string]any" THEN "map[string]any"
    ELSE IF d.type = "string" THEN "string"
    ELSE IF d.type = "[]byte" THEN "[]byte"
    ELSE IF "yaml.Unmarshaler" \in d.caps THEN "yaml.Unmarshaler"
    ELSE IF d.type = "rwxjson.This" THEN "rwxjson.This"
    ELSE "default"

\* the case of the destination type switch a Data value takes
DataCase(d) ==
    IF d.type = "map[string]any" THEN "map[string]any"
    ELSE IF d.type = "string" THEN "string"
    ELSE IF d.type = "[]byte" THEN "[]byte"
    ELSE IF "yaml.Unmarshaler" \in d.caps THEN "yaml.Unmarshaler"
    ELSE IF "io.Writer" \in d.caps THEN "io.Writer"
    ELSE IF d.type = "rwxjson.This" THEN "rwxjson.This"
    ELSE "default"

---------------------------------------------------------------------------
(* Response bodies and yaml.Unmarshal *)

\* a response body: nothing, a JSON object of string values, the integer
\* literal, or text that does not parse
ObjectBody(obj) == [form |-> "object", obj |-> obj]

IntBody == [form |-> "int", obj |-> EmptyMap]

MalformedBody == [form |-> "malformed", obj |-> EmptyMap]

ObjKeys == {PostKey, ChangedKey}

Objects == UNION {[K -> {"t"}] : K \in SUBSET ObjKeys}

\* one member of an object, as the server writes it
Member(obj, k) == IF k \in DOMAIN obj THEN <<"\"">> \o k \o <<"\"", ":", "\"", obj[k], "\"", ",">> ELSE <<>>

\* resbytes, the bytes io.ReadAll returns
Raw(body) ==
    IF body.form = "empty" THEN <<>>
    ELSE IF body.form = "int" THEN ServedInt
    ELSE IF body.form = "malformed" THEN <<"{">>
    ELSE <<"{">> \o Member(body.obj, PostKey) \o Member(body.obj, ChangedKey) \o <<"}">>

\* the key yaml.v3 decodes a struct field from: the field has no yaml tag
\* (a json tag is not one), so it is the lower-cased field name
YAMLKey(f) == ToLower(f.name)

\* yaml.Unmarshal of an object into the typed record: a field whose key is
\* in the object is assigned, every other field is left alone, and keys
\* that match no field are ignored
DecodeStruct(obj, r) ==
    [i \in 1..Len(Fields) |->
        IF YAMLKey(Fields[i]) \in DOMAIN obj THEN obj[YAMLKey(Fields[i])] ELSE r[i]]

\* yaml.Unmarshal of an object into an existing map[string]any
DecodeMap(obj, m) == obj @@ m

Store(r, g, n) == [rec |-> r, gmap |-> g, anint |-> n]

\* yaml.Unmarshal(resbytes, req.Data): the set of possible outcomes, each
\* "ok", "error" (an error is returned) or "panic", with the caller's
\* storage afterwards.  A yaml.Unmarshaler decides for itself; a value
\* yaml cannot assign to (nil, or not a pointer) ends in an error or a
\* panic, depending on the yaml library.
Unmarshal(body, d, st) ==
    IF body.form = "malformed" THEN {[how |-> "error", st |-> st]}
    ELSE IF d.type = "map[string]any"
         THEN IF body.form = "object"
              THEN {[how |-> "ok", st |-> [st EXCEPT !.gmap = DecodeMap(body.obj, @)]]}
              ELSE {[how |-> "error", st |-> st]}
    ELSE IF "yaml.Unmarshaler" \in d.caps
         THEN {[how |-> "ok", st |-> st], [how |-> "error", st |-> st]}
    ELSE IF d.type = "*Data"
         THEN IF body.form = "object"
              THEN {[how |-> "ok", st |-> [st EXCEPT !.rec = DecodeStruct(body.obj, @)]]}
              ELSE {[how |-> "error", st |-> st]}
    ELSE IF d.type = "*int"
         THEN IF body.form = "int"
              THEN {[how |-> "ok", st |-> [st EXCEPT !.anint = ServedInt]]}
              ELSE {[how |-> "error", st |-> st]}
    ELSE {[how |-> "error", st |-> st], [how |-> "panic", st |-> st]}

ErrOf(how) == IF how = "ok" THEN NoErr
              ELSE IF how = "error" THEN MakeErr("DecodeError", NilResp, "yaml")
              ELSE MakeErr("Panic", NilResp, "yaml")

\* lines 202-233: the possible outcomes of interpreting a response the
\* client returned without error: the error returned, req.Data and the
\* caller's storage afterwards
Interpret(r, d, st) ==
    IF ~IsSuccess(r.StatusCode)
    THEN {[err |-> MakeErr("HTTPError", r, ""), data |-> d, st |-> st]}
    ELSE IF r.readFails
    THEN {[err |-> MakeErr("ReadError", NilResp, "read"), data |-> d, st |-> st]}
    ELSE IF Len(Raw(r.Body)) = 0
    THEN {[err |-> NoErr, data |-> d, st |-> st]}
    ELSE LET c == DataCase(d) IN
         IF c \in {"map[string]any", "yaml.Unmarshaler", "default"}
         THEN {[err |-> ErrOf(o.how), data |-> d, st |-> o.st] : o \in Unmarshal(r.Body, d, st)}
         ELSE IF c = "string"
         THEN {[err |-> NoErr, data |-> [d EXCEPT !.str = Raw(r.Body)], st |-> st]}
         ELSE {[err |-> NoErr, data |-> d, st |-> st]}

---------------------------------------------------------------------------
(* State *)

NoPrev == [valid |-> FALSE, ret |-> NotReturned, res |-> NoResult, calls |-> 0,
           st |-> Store(InitRec, EmptyMap, ZeroInt)]

Init ==
    /\ req = ZeroReq
    /\ pc = "idle"
    /\ ret = NotReturned
    /\ httpreq = NoRequest
    /\ ctx = NoContext
    /\ res = NoResult
    /\ calls = 0
    /\ path = "none"
    /\ entry = [req |-> ZeroReq, st |-> Store(InitRec, EmptyMap, ZeroInt)]
    /\ prev = NoPrev
    /\ submits = 0
    /\ TimeOut = DefaultTimeOut
    /\ rec = InitRec
    /\ gmap = EmptyMap
    /\ anint = ZeroInt

\* a return statement of Submit: the error goes to the caller and the
\* deferred cancel of the scope created so far (c) runs
Return(e, c) ==
    /\ ret' = e
    /\ ctx' = Release(c)
    /\ pc' = "done"

\* web.TimeOut = n, set while no descriptor is in use
SetTimeOut ==
    /\ pc = "idle"
    /\ \E n \in TimeOuts \ {TimeOut} : TimeOut' = n
    /\ UNCHANGED <<req, pc, ret, httpreq, ctx, res, calls, path, entry, prev,
                   submits, rec, gmap, anint>>

\* the caller builds a fresh descriptor: req := &web.Req{...}
NewReq(ds) ==
    /\ pc = "idle"
    /\ \E d \in ds : req' = d
    /\ pc' = "ready"
    /\ ret' = NotReturned
    /\ httpreq' = NoRequest
    /\ ctx' = NoContext
    /\ res' = NoResult
    /\ calls' = 0
    /\ path' = "none"
    /\ entry' = [req |-> req', st |-> Store(rec, gmap, anint)]
    /\ prev' = NoPrev
    /\ submits' = 0
    /\ UNCHANGED <<TimeOut, rec, gmap, anint>>

\* the caller has read the results and lets go of the descriptor; what
\* stays is the package global and the caller's own storage
Drop ==
    /\ pc = "done"
    /\ pc' = "idle"
    /\ req' = ZeroReq
    /\ ret' = NotReturned
    /\ httpreq' = NoRequest
    /\ ctx' = NoContext
    /\ res' = NoResult
    /\ calls' = 0
    /\ path' = "none"
    /\ entry' = [req |-> ZeroReq, st |-> Store(rec, gmap, anint)]
    /\ prev' = NoPrev
    /\ submits' = 0
    /\ UNCHANGED <<TimeOut, rec, gmap, anint>>

\* Submit, lines 125-193: default the method, reject a URL with '?',
\* append the query, serialize the body, build the request, derive the
\* deadline scope.  A descriptor that has been submitted may be submitted
\* again.
SubmitPrepare ==
    /\ pc = "ready" \/ (pc = "done" /\ submits < MaxSubmits)
    /\ submits' = submits + 1
    /\ entry' = [req |-> req, st |-> Store(rec, gmap, anint)]
    /\ prev' = IF pc = "done"
               THEN [valid |-> TRUE, ret |-> ret, res |-> res, calls |-> calls,
                     st |-> Store(rec, gmap, anint)]
               ELSE NoPrev
    /\ res' = NoResult
    /\ calls' = 0
    /\ LET m == DefaultMethod(req.Method)
           url == AppendQuery(req.URL, req.Query)
           s == Serialize(req.Body)
           made == IF req.Headers.isnil THEN MakeHeaders(EmptyMap) ELSE req.Headers
           h == HeadersAfterBody(made, s)
       IN IF HasQuery(req.URL)
          THEN /\ req' = [req EXCEPT !.Method = m]
               /\ path' = "none"
               /\ httpreq' = NoRequest
               /\ Return(MakeErr("ReqSyntaxError", NilResp, "URL contains '?' (use Query instead)"),
                         NoContext)
          ELSE IF s.err
          THEN /\ req' = [req EXCEPT !.Method = m, !.URL = url, !.Headers = made]
               /\ path' = BodyCase(req.Body)
               /\ httpreq' = NoRequest
               /\ Return(MakeErr("MarshalError", NilResp, "marshal"), NoContext)
          ELSE IF ~ValidMethod(m)
          THEN /\ req' = [req EXCEPT !.Method = m, !.URL = url, !.Headers = h]
               /\ path' = BodyCase(req.Body)
               /\ httpreq' = NoRequest
               /\ Return(MakeErr("NewRequestError", NilResp, "invalid method"), NoContext)
          ELSE /\ req' = [req EXCEPT !.Method = m, !.URL = url, !.Headers = h]
               /\ path' = BodyCase(req.Body)
               /\ httpreq' = [built |-> TRUE, Method |-> m, URL |-> url, Body |-> s.buf,
                              Header |-> h.m, Ctx |-> RequestContext(req.Context, TimeOut)]
               /\ ctx' = DerivedScope(req.Context, TimeOut)
               /\ ret' = NotReturned
               /\ pc' = "do"
    /\ UNCHANGED <<TimeOut, rec, gmap, anint>>

\* Submit, lines 195-200: res, err := Client.Do(httpreq); req.Resp = res;
\* a transport error is returned as it is
SubmitDo(Outcomes) ==
    /\ pc = "do"
    /\ \E r \in Outcomes :
          /\ res' = r
          /\ calls' = calls + 1
          /\ req' = [req EXCEPT !.Resp = RespAfterDo(req.Resp, r)]
          /\ IF r.err # ""
             THEN Return(MakeErr("TransportError", NilResp, r.err), ctx)
             ELSE /\ pc' = "finish"
                  /\ UNCHANGED <<ret, ctx>>
    /\ UNCHANGED <<httpreq, path, entry, prev, submits, TimeOut, rec, gmap, anint>>

\* Submit, lines 202-233: classify the status, read the body, decode it
\* into req.Data
SubmitFinish ==
    /\ pc = "finish"
    /\ \E o \in Interpret(res.resp, req.Data, Store(rec, gmap, anint)) :
          /\ req' = [req EXCEPT !.Data = o.data]
          /\ rec' = o.st.rec
          /\ gmap' = o.st.gmap
          /\ anint' = o.st.anint
          /\ Return(o.err, ctx)
    /\ UNCHANGED <<httpreq, res, calls, path, entry, prev, submits, TimeOut>>

---------------------------------------------------------------------------
(* Inputs *)

PlainURL == <<"u">>

URLs == {PlainURL, <<"u", "?", "k">>, <<"?", "k">>}

Queries == {<<>>, << <<<<"a">>, <<"1">>>> >>, << <<<<"a">>, <<"?">>>>, <<<<"b">>, <<" ">>>> >>}

HeaderSets == {NilHeaders, MakeHeaders("Content-Type" :> TextContentType)}

\* every Body: the three concrete types, nil, and a value of any other
\* type with each combination of the four interfaces
Bodies ==
    {MakeBody("url.Values", {}, q, <<>>, FALSE) : q \in {<< <<<<"k">>, <<"v">>>> >>}}
    \cup {MakeBody("[]byte", {}, <<>>, <<>>, FALSE)}
    \cup {MakeBody("string", {}, <<>>, t, FALSE) : t \in {<<>>, <<"h", "i">>}}
    \cup {NilBody}
    \cup {MakeBody("other", c, <<>>, <<>>, f) : c \in SUBSET MarshalCaps, f \in BOOLEAN}

\* every Data: the concrete types of the switch, the typed pointers, nil,
\* and a value of any other type with each combination of the interfaces
Datas ==
    {MakeData(t, {}, <<>>) :
        t \in {"map[string]any", "string", "[]byte", "rwxjson.This", "*Data", "*int", "nil"}}
    \cup {MakeData("other", c, <<>>) : c \in SUBSET UnmarshalCaps}

StatusCodes == {199, 200, 299, 300, 404}

ResponseBodies == {EmptyBody, IntBody, MalformedBody} \cup {ObjectBody(o) : o \in Objects}

\* what Client.Do may return: a response and no error, or an error with
\* no response, or (a refused redirect) an error with the response
Outcomes ==
    {[resp |-> MakeResp("response", c, b, FALSE), err |-> ""] :
        c \in {200, 299}, b \in ResponseBodies}
    \cup {[resp |-> MakeResp("response", 200, IntBody, TRUE), err |-> ""]}
    \cup {[resp |-> MakeResp("response", c, MalformedBody, FALSE), err |-> ""] :
        c \in StatusCodes \ {200, 299}}
    \cup {[resp |-> NilResp, err |-> e] : e \in {"connection refused", "deadline exceeded"}}
    \cup {[resp |-> MakeResp("response", 300, EmptyBody, FALSE), err |-> "redirect refused"]}

\* descriptors that vary what the response side of Submit depends on
Descriptors ==
    [Method : {<<>>, POST}, URL : {PlainURL, <<"u", "?", "k">>}, Query : {<<>>},
     Headers : {NilHeaders}, Body : {NilBody}, Data : Datas,
     Context : {"nil", "caller"}, Resp : {NilResp, StaleResp}]

\* descriptors that vary what the request side of Submit depends on
RequestDescriptors ==
    [Method : {<<>>, GET, DELETE, BadMethod}, URL : URLs, Query : Queries,
     Headers : HeaderSets, Body : Bodies,
     Data : {NilData, MakeData("other", {}, <<>>)},
     Context : {"nil", "caller"}, Resp : {NilResp, StaleResp}]

RequestOutcomes ==
    {[resp |-> MakeResp("response", 200, EmptyBody, FALSE), err |-> ""],
     [resp |-> MakeResp("response", 404, EmptyBody, FALSE), err |-> ""],
     [resp |-> NilResp, err |-> "connection refused"]}

---------------------------------------------------------------------------
(* Specifications *)

Fresh == NewReq(Descriptors)

Do == SubmitDo(Outcomes)

Next == Fresh \/ SetTimeOut \/ SubmitPrepare \/ Do \/ SubmitFinish \/ Drop

\* the caller and every server answer
Spec == Init /\ [][Next]_vars

FreshRequest == NewReq(RequestDescriptors)

DoRequest == SubmitDo(RequestOutcomes)

NextRequest ==
    FreshRequest \/ SetTimeOut \/ SubmitPrepare \/ DoRequest \/ SubmitFinish \/ Drop

\* the caller with every request, against a server with three answers
SpecRequest == Init /\ [][NextRequest]_vars

---------------------------------------------------------------------------
(* Properties *)

Contains(t, c) == \E i \in 1..Len(t) : t[i] = c

InFlight == pc \in {"do", "finish", "done"}

\* C1: a descriptor whose URL contains '?' makes Submit return a
\* ReqSyntaxError without building a request or invoking the client, and
\* leaves Resp as it was, whatever the other fields are.
C1_QueryInURLRejected ==
    (InFlight /\ Contains(entry.req.URL, "?")) =>
        /\ pc = "done"
        /\ ret.type = "ReqSyntaxError"
        /\ calls = 0
        /\ ~httpreq.built
        /\ req.Resp = entry.req.Resp

C1_Witness ==
    /\ pc = "done"
    /\ submits = 1
    /\ Contains(entry.req.URL, "?")
    /\ ret.type = "ReqSyntaxError"
    /\ entry.req.Resp = StaleResp
    /\ req.Resp = StaleResp
    /\ entry.req.Body.type = "url.Values"
    /\ entry.req.Query # <<>>

\* C2: Submit returns an HTTPError exactly when the client returned a
\* response without error and its status is outside [200,300); the
\* HTTPError wraps that response; a transport error of the client is
\* returned unchanged and never as an HTTPError.
C2_HTTPErrorExactly ==
    pc = "done" =>
        /\ ret.type = "HTTPError" <=>
              (calls = 1 /\ res.err = ""
               /\ ~(200 <= res.resp.StatusCode /\ res.resp.StatusCode < 300))
        /\ ret.type = "HTTPError" => ret.resp = res.resp
        /\ (calls = 1 /\ res.err # "") => (ret.type = "TransportError" /\ ret.cause = res.err)

C2_Witness ==
    /\ pc = "done"
    /\ ret.type = "HTTPError"
    /\ ret.resp.StatusCode = 300
    /\ res.err = ""

SuccessAnswer ==
    /\ pc = "done"
    /\ calls = 1
    /\ res.err = ""
    /\ 200 <= res.resp.StatusCode
    /\ res.resp.StatusCode < 300

\* C3 as stated: for every status in [200,300) Submit returns no error and
\* Resp is populated, for every response body and destination.
C3_SuccessAlwaysNil ==
    SuccessAnswer => (ret.type = "nil" /\ req.Resp.tag = "response")

\* destinations the switch never decodes into
Undecoded(d) ==
    \/ d.type \in {"string", "[]byte", "rwxjson.This"}
    \/ (d.type = "other" /\ d.caps = {"io.Writer"})

\* C3 as amended: for every status in [200,300) Resp is populated with the
\* response and Submit returns no HTTPError; it returns no error when the
\* body is read and is empty or the destination is one that is not decoded
\* into, and otherwise only the error of reading or of decoding the body.
C3_SuccessStatus ==
    SuccessAnswer =>
        /\ req.Resp = res.resp
        /\ req.Resp.tag = "response"
        /\ ret.type \in {"nil", "ReadError", "DecodeError", "Panic"}
        /\ ret.type = "ReadError" <=> res.resp.readFails
        /\ (~res.resp.readFails /\ res.resp.Body.form = "empty") => ret.type = "nil"
        /\ (~res.resp.readFails /\ Undecoded(entry.req.Data)) => ret.type = "nil"

C3_Witness ==
    /\ SuccessAnswer
    /\ res.resp.StatusCode = 299
    /\ res.resp.Body.form = "object"
    /\ entry.req.Data.type = "other"
    /\ entry.req.Data.caps = {"io.Writer"}
    /\ ret.type = "nil"

\* C4: once the client has been called, Resp holds what that call
\* returned, before the outcome is interpreted and on every exit path.
C4_RespRecorded ==
    (pc \in {"finish", "done"} /\ calls = 1) => req.Resp = res.resp

C4_Witness ==
    /\ pc = "done"
    /\ calls = 1
    /\ ret.type = "TransportError"
    /\ entry.req.Resp = StaleResp
    /\ req.Resp = NilResp

\* C5: submitting the same GET descriptor twice in a row against a server
\* that gives the same 2xx answer succeeds both times and leaves the
\* decoded destination the same after the second call as after the first.
C5_Idempotent ==
    (/\ pc = "done"
     /\ submits = 2
     /\ prev.valid
     /\ req.Method = GET
     /\ prev.ret.type = "nil"
     /\ prev.calls = 1
     /\ (calls = 1 => res = prev.res)) =>
        /\ ret.type = "nil"
        /\ Store(rec, gmap, anint) = prev.st

\* C6: after a successful Submit that decodes a JSON object into the typed
\* record, every field whose key (its json tag) is in the object holds the
\* object's value and every other field keeps the value it had.
C6_FieldsFollowResponse ==
    (/\ pc = "done"
     /\ calls = 1
     /\ ret.type = "nil"
     /\ entry.req.Data.type = "*Data"
     /\ res.resp.Body.form = "object") =>
        \A i \in 1..Len(Fields) :
            IF Fields[i].tag \in DOMAIN res.resp.Body.obj
            THEN rec[i] = res.resp.Body.obj[Fields[i].tag]
            ELSE rec[i] = entry.st.rec[i]

\* a value of a type that is none of the documented ones and has none of
\* the interfaces the switches look for
Unsupported(v) == v.type = "other" /\ v.caps = {}

\* C7: a Body or a Data of an unsupported type makes Submit return a
\* ReqSyntaxError before any network call.
C7_UnsupportedTypesRejected ==
    (InFlight /\ (Unsupported(entry.req.Body) \/ Unsupported(entry.req.Data))) =>
        /\ pc = "done"
        /\ ret.type = "ReqSyntaxError"
        /\ calls = 0

\* C8: with a nil Context the request is issued under a deadline scope of
\* TimeOut seconds, the value at the time of the call, and that scope is
\* cancelled when Submit has returned, on every exit path after its
\* creation.
C8_DeadlineScope ==
    (entry.req.Context = "nil" /\ InFlight /\ httpreq.built) =>
        /\ httpreq.Ctx.kind = "timeout"
        /\ httpreq.Ctx.deadline = ctx.deadline
        /\ pc \in {"do", "finish"} => (ctx.state = "active" /\ ctx.deadline = TimeOut)
        /\ pc = "done" => ctx.state = "cancelled"

C8_Witness ==
    /\ pc = "done"
    /\ entry.req.Context = "nil"
    /\ calls = 1
    /\ ret.type = "DecodeError"
    /\ ctx.state = "cancelled"
    /\ ctx.deadline = ExampleTimeOut
    /\ httpreq.Ctx.deadline = ExampleTimeOut

\* C9: with a non-nil Context the outbound request carries that Context,
\* and the TimeOut deadline is used only when Context is nil.
C9_CallerContext ==
    httpreq.built =>
        /\ entry.req.Context # "nil" => httpreq.Ctx.kind = "caller"
        /\ httpreq.Ctx.kind = "timeout" => entry.req.Context = "nil"

\* the cases of the body switch, in the priority order of the spec
Priority == <<"url.Values", "[]byte", "string", "yaml.Marshaler", "json.Marshaler",
              "encoding.TextMarshaler", "fmt.Stringer", "default">>

Satisfies(b, c) == c = "default" \/ b.type = c \/ c \in b.caps

ContentTypeOf(h) == IF "Content-Type" \in DOMAIN h.m THEN h.m["Content-Type"] ELSE <<>>

\* C10: the body takes the first case of the priority order that it
\* satisfies, for every Body and every combination of interfaces, and only
\* the form-values case sets Content-Type.
C10_BodyPriority ==
    path # "none" =>
        /\ \E i \in 1..Len(Priority) :
              /\ path = Priority[i]
              /\ Satisfies(entry.req.Body, Priority[i])
              /\ \A j \in 1..(i - 1) : ~Satisfies(entry.req.Body, Priority[j])
        /\ (path = "json.Marshaler" /\ httpreq.built) => httpreq.Body = JSONText
        /\ IF path = "url.Values"
           THEN ContentTypeOf(req.Headers) = FormContentType
           ELSE ContentTypeOf(req.Headers) = ContentTypeOf(entry.req.Headers)

C10_Witness ==
    /\ pc = "done"
    /\ path = "json.Marshaler"
    /\ entry.req.Body.caps = {"json.Marshaler", "encoding.TextMarshaler", "fmt.Stringer"}
    /\ httpreq.Body = JSONText
    /\ ContentTypeOf(req.Headers) = TextContentType

====
